---- MODULE Spec2Model ----
(***************************************************************************)
(* Model of the logging facade of gin-api (package logger): functional    *)
(* options, level parsing, the two severity-filtered sinks, the per-call   *)
(* merge of contextual and explicit fields, and Fatal's termination.       *)
(*                                                                         *)
(* Strings that are parsed (level strings, the error text) are sequences   *)
(* of one-character strings, so that letter case is something the model    *)
(* can talk about; all other strings are opaque.                           *)
(***************************************************************************)
EXTENDS Integers, Sequences, FiniteSets, TLC

VARIABLES pc, options, opts, logger, err, out, last, calls, got

vars == <<pc, options, opts, logger, err, out, last, calls, got>>

(***************************************************************************)
(* Bounds                                                                  *)
(***************************************************************************)
MaxOpts == 2

MaxCalls == 2

MaxFieldCalls == 1

MaxFields == 2

(***************************************************************************)
(* zapcore severities                                                      *)
(***************************************************************************)
DebugLevel == -1

InfoLevel == 0

WarnLevel == 1

ErrorLevel == 2

DPanicLevel == 3

PanicLevel == 4

FatalLevel == 5

Levels == DebugLevel..FatalLevel

(***************************************************************************)
(* Level strings                                                           *)
(***************************************************************************)
LowerOf ==
  [c \in {"D","E","B","U","G","I","N","F","O","W","A","R","P","C","T","L","V","S"} |->
     CASE c = "D" -> "d" [] c = "E" -> "e" [] c = "B" -> "b" [] c = "U" -> "u"
       [] c = "G" -> "g" [] c = "I" -> "i" [] c = "N" -> "n" [] c = "F" -> "f"
       [] c = "O" -> "o" [] c = "W" -> "w" [] c = "A" -> "a" [] c = "R" -> "r"
       [] c = "P" -> "p" [] c = "C" -> "c" [] c = "T" -> "t" [] c = "L" -> "l"
       [] c = "V" -> "v" [] c = "S" -> "s"]

UpperOf ==
  [c \in {"d","e","b","u","g","i","n","f","o","w","a","r","p","c","t","l","v","s"} |->
     CHOOSE u \in DOMAIN LowerOf : LowerOf[u] = c]

ToLower(s) == [i \in 1..Len(s) |-> IF s[i] \in DOMAIN LowerOf THEN LowerOf[s[i]] ELSE s[i]]

ToUpper(s) == [i \in 1..Len(s) |-> IF s[i] \in DOMAIN UpperOf THEN UpperOf[s[i]] ELSE s[i]]

\* every spelling of s that differs from it only in letter case
Casings(s) ==
  { [i \in 1..Len(s) |-> IF i \in U THEN ToUpper(s)[i] ELSE ToLower(s)[i]] :
      U \in SUBSET (1..Len(s)) }

\* the level tokens in ascending severity: TokenNames[i] names severity i - 2
TokenNames ==
  << <<"d","e","b","u","g">>, <<"i","n","f","o">>, <<"w","a","r","n">>,
     <<"e","r","r","o","r">>, <<"d","p","a","n","i","c">>,
     <<"p","a","n","i","c">>, <<"f","a","t","a","l">> >>

TokenSet == { TokenNames[i] : i \in 1..Len(TokenNames) }

SeverityOf(tok) ==
  IF tok = <<>> THEN InfoLevel
  ELSE (CHOOSE i \in 1..Len(TokenNames) : TokenNames[i] = tok) - 2

UnknownNames ==
  { <<"v","e","r","b","o","s","e">>, <<"t","r","a","c","e">>,
    <<"w","a","r","n","i","n","g">>, <<"e","r","r">> }

AllLevelStrings ==
  UNION { Casings(t) : t \in TokenSet } \cup {<<>>}
    \cup UNION { {u, ToUpper(u)} : u \in UnknownNames }

SomeLevelStrings ==
  { <<>>, <<"d","e","b","u","g">>, <<"W","A","R","N">>, <<"f","a","t","a","l">>,
    <<"I","n","f","o">>, <<"v","e","r","b","o","s","e">> }

ErrorPrefix == <<"e","r","r","o","r"," ","l","e","v","e","l",":">>

NoError == [nil |-> TRUE]

ErrorsNew(text) == [nil |-> FALSE, text |-> text]

zapLevelNoDefault(level) ==
  CASE level \in { <<"d","e","b","u","g">>, <<"D","E","B","U","G">> } ->
         [level |-> DebugLevel, err |-> NoError]
    [] level \in { <<"w","a","r","n">>, <<"W","A","R","N">> } ->
         [level |-> WarnLevel, err |-> NoError]
    [] level \in { <<"e","r","r","o","r">>, <<"E","R","R","O","R">> } ->
         [level |-> ErrorLevel, err |-> NoError]
    [] level \in { <<"d","p","a","n","i","c">>, <<"D","P","A","N","I","C">> } ->
         [level |-> DPanicLevel, err |-> NoError]
    [] level \in { <<"p","a","n","i","c">>, <<"P","A","N","I","C">> } ->
         [level |-> PanicLevel, err |-> NoError]
    [] level \in { <<"f","a","t","a","l">>, <<"F","A","T","A","L">> } ->
         [level |-> FatalLevel, err |-> NoError]
    [] OTHER -> [level |-> InfoLevel, err |-> NoError]

zapLevelSwapped(level) ==
  CASE level \in { <<"d","e","b","u","g">>, <<"D","E","B","U","G">> } ->
         [level |-> DebugLevel, err |-> NoError]
    [] level \in { <<"i","n","f","o">>, <<"I","N","F","O">>, <<>> } ->
         [level |-> InfoLevel, err |-> NoError]
    [] level \in { <<"w","a","r","n">>, <<"W","A","R","N">> } ->
         [level |-> WarnLevel, err |-> NoError]
    [] level \in { <<"e","r","r","o","r">>, <<"E","R","R","O","R">> } ->
         [level |-> ErrorLevel, err |-> NoError]
    [] level \in { <<"d","p","a","n","i","c">>, <<"D","P","A","N","I","C">> } ->
         [level |-> PanicLevel, err |-> NoError]
    [] level \in { <<"p","a","n","i","c">>, <<"P","A","N","I","C">> } ->
         [level |-> DPanicLevel, err |-> NoError]
    [] level \in { <<"f","a","t","a","l">>, <<"F","A","T","A","L">> } ->
         [level |-> FatalLevel, err |-> NoError]
    [] OTHER -> [level |-> 0, err |-> ErrorsNew(ErrorPrefix \o level)]

zapLevel(level) ==
  CASE level \in { <<"d","e","b","u","g">>, <<"D","E","B","U","G">> } ->
         [level |-> DebugLevel, err |-> NoError]
    [] level \in { <<"i","n","f","o">>, <<"I","N","F","O">>, <<>> } ->
         [level |-> InfoLevel, err |-> NoError]
    [] level \in { <<"w","a","r","n">>, <<"W","A","R","N">> } ->
         [level |-> WarnLevel, err |-> NoError]
    [] level \in { <<"e","r","r","o","r">>, <<"E","R","R","O","R">> } ->
         [level |-> ErrorLevel, err |-> NoError]
    [] level \in { <<"d","p","a","n","i","c">>, <<"D","P","A","N","I","C">> } ->
         [level |-> DPanicLevel, err |-> NoError]
    [] level \in { <<"p","a","n","i","c">>, <<"P","A","N","I","C">> } ->
         [level |-> PanicLevel, err |-> NoError]
    [] level \in { <<"f","a","t","a","l">>, <<"F","A","T","A","L">> } ->
         [level |-> FatalLevel, err |-> NoError]
    [] OTHER -> [level |-> 0, err |-> ErrorsNew(ErrorPrefix \o level)]

(***************************************************************************)
(* Options                                                                 *)
(***************************************************************************)
Writers == {"stdout", "w1", "w2"}

defaultOptions ==
  [ level       |-> <<"i","n","f","o">>,
    callSkip    |-> 1,
    module      |-> "default",
    serviceName |-> "default",
    infoWriter  |-> "stdout",
    errorWriter |-> "stdout" ]

WithCallerSkip(skip) == [set |-> "callSkip", arg |-> skip]

WithModule(module) == [set |-> "module", arg |-> module]

WithServiceName(serviceName) == [set |-> "serviceName", arg |-> serviceName]

WithInfoWriter(w) == [set |-> "infoWriter", arg |-> w]

WithErrorWriter(w) == [set |-> "errorWriter", arg |-> w]

WithLevel(l) == [set |-> "level", arg |-> l]

\* o(opts): the closure an option function returns, applied to the options
ApplyOption(o, os) ==
  CASE o.set = "callSkip"    -> [os EXCEPT !.callSkip = o.arg]
    [] o.set = "module"      -> [os EXCEPT !.module = o.arg]
    [] o.set = "serviceName" -> [os EXCEPT !.serviceName = o.arg]
    [] o.set = "infoWriter"  -> [os EXCEPT !.infoWriter = o.arg]
    [] o.set = "errorWriter" -> [os EXCEPT !.errorWriter = o.arg]
    [] o.set = "level"       -> [os EXCEPT !.level = o.arg]

RECURSIVE ApplyOptionsReversed(_, _)
ApplyOptionsReversed(optionSeq, os) ==
  IF optionSeq = <<>> THEN os
  ELSE ApplyOption(Head(optionSeq), ApplyOptionsReversed(Tail(optionSeq), os))

\* for _, o := range options { o(opts) }
RECURSIVE ApplyOptions(_, _)
ApplyOptions(optionSeq, os) ==
  IF optionSeq = <<>> THEN os
  ELSE ApplyOptions(Tail(optionSeq), ApplyOption(Head(optionSeq), os))

(***************************************************************************)
(* The logger and its two sink filters                                     *)
(***************************************************************************)
NoLogger == [nil |-> TRUE]

\* l = &Logger{level: level, opts: opts}
MakeLogger(level, os) == [nil |-> FALSE, level |-> level, opts |-> os]

infoEnablerNoThreshold(l, lvl) == lvl <= InfoLevel

infoEnabler(l, lvl) ==
  IF lvl < l.level THEN FALSE ELSE lvl <= InfoLevel

errorEnabler(l, lvl) ==
  IF lvl < l.level THEN FALSE ELSE lvl >= WarnLevel

AddStacktraceFromError(l, lvl) == lvl >= ErrorLevel

\* zap.AddStacktrace(errorEnabler)
AddStacktrace(l, lvl) == errorEnabler(l, lvl)

GetLevel(l) == l.level

\* keys of the two fields fixed at construction
Module == "module"

SericeName == "serviceName"

String(key, val) == [Key |-> key, Type |-> "String", Val |-> val]

Reflect(key, val) == [Key |-> key, Type |-> "Reflect", Val |-> val]

\* fields := []zapcore.Field{zap.String(Module, ...), zap.String(SericeName, ...)}
FixedFields(l) ==
  << String(Module, l.opts.module), String(SericeName, l.opts.serviceName) >>

(***************************************************************************)
(* Contextual fields and the per-call merge                                *)
(***************************************************************************)
EmptyMap == [k \in {} |-> 0]

\* conversion.StructToMap(ValueHTTPFields(ctx)): the context's fields as a
\* map, or no map and an error when the conversion fails
StructToMap(ctx) ==
  IF ctx.bad THEN [m |-> EmptyMap, err |-> TRUE]
  ELSE [m |-> ctx.fields, err |-> FALSE]

MapPut(m, k, v) == [x \in (DOMAIN m) \cup {k} |-> IF x = k THEN v ELSE m[x]]

RECURSIVE PutAll(_, _)
PutAll(target, fields) ==
  IF fields = <<>> THEN target
  ELSE PutAll(MapPut(target, Head(fields).Key, Head(fields)), Tail(fields))

RECURSIVE PutAbsent(_, _)
PutAbsent(target, fields) ==
  IF fields = <<>> THEN target
  ELSE PutAbsent(IF Head(fields).Key \in DOMAIN target THEN target
                 ELSE MapPut(target, Head(fields).Key, Head(fields)),
                 Tail(fields))

\* the slices a range over the map can build: one per iteration order
Slices(target) ==
  LET n == Cardinality(DOMAIN target)
      orders == { o \in [1..n -> DOMAIN target] :
                    \A i, j \in 1..n : i # j => o[i] # o[j] }
  IN  { [i \in 1..n |-> target[o[i]]] : o \in orders }

extractFieldsContextWins(ctx, fields) ==
  LET fieldsMap == StructToMap(ctx).m
      target == [k \in DOMAIN fieldsMap |-> Reflect(k, fieldsMap[k])]
  IN  Slices(PutAbsent(target, fields))

extractFieldsAbortOnError(ctx, fields) ==
  LET res == StructToMap(ctx)
      target == [k \in DOMAIN res.m |-> Reflect(k, res.m[k])]
  IN  IF res.err THEN {<<>>} ELSE Slices(PutAll(target, fields))

extractFieldsExplicitOnly(ctx, fields) ==
  Slices(PutAll(EmptyMap, fields))

\* the set of slices extractFields may return (map iteration order is free)
extractFields(ctx, fields) ==
  LET fieldsMap == StructToMap(ctx).m
      target == [k \in DOMAIN fieldsMap |-> Reflect(k, fieldsMap[k])]
  IN  Slices(PutAll(target, fields))

(***************************************************************************)
(* The engine behind the facade: a tee of two cores                        *)
(***************************************************************************)
\* the cores of zapcore.NewTee, in order: sink name, writer, enabler
Accepts(l, sink, lvl) ==
  IF sink = "info" THEN infoEnabler(l, lvl) ELSE errorEnabler(l, lvl)

WriterOf(l, sink) ==
  IF sink = "info" THEN l.opts.infoWriter ELSE l.opts.errorWriter

AcceptingSinks(l, lvl) == { s \in {"info", "error"} : Accepts(l, s, lvl) }

Entry(l, sink, lvl, new, stack) ==
  [sink |-> sink, level |-> lvl, fields |-> FixedFields(l) \o new, stack |-> stack]

WriteCore(o, l, sink, lvl, new, stack) ==
  IF Accepts(l, sink, lvl)
  THEN [o EXCEPT ![WriterOf(l, sink)] = Append(@, Entry(l, sink, lvl, new, stack))]
  ELSE o

WriteTee(o, l, lvl, new, stack) ==
  WriteCore(WriteCore(o, l, "info", lvl, new, stack), l, "error", lvl, new, stack)

AfterWriteNeverExits(lvl) == "ready"

\* what the engine does once the entry is written: Fatal goes on to exit
AfterWrite(lvl) == IF lvl = FatalLevel THEN "exiting" ELSE "ready"

(***************************************************************************)
(* Inputs                                                                  *)
(***************************************************************************)
AllOptions ==
  { WithLevel(l) : l \in SomeLevelStrings }
    \cup { WithCallerSkip(n) : n \in {0, 2} }
    \cup { WithModule(m) : m \in {"a", "b"} }
    \cup { WithServiceName(n) : n \in {"a", "b"} }
    \cup { WithInfoWriter(w) : w \in {"w1", "w2"} }
    \cup { WithErrorWriter(w) : w \in {"w1", "w2"} }

OptionSeqs == UNION { [1..n -> AllOptions] : n \in 0..MaxOpts }

\* every threshold, on the default writers and on two separate writers,
\* and one level string that does not parse
MainOptionSeqs ==
  { <<WithLevel(t)>> : t \in TokenSet \cup {<<"v","e","r","b","o","s","e">>} }
    \cup { <<WithInfoWriter("w1"), WithErrorWriter("w2"), WithLevel(ToUpper(t))>> :
             t \in TokenSet }
    \cup { <<>> }

\* threshold debug, so that every call is written, on two separate writers
FieldOptionSeqs ==
  { <<WithLevel(<<"d","e","b","u","g">>), WithInfoWriter("w1"),
      WithErrorWriter("w2")>> }

CtxValue == [requestId |-> "A", traceId |-> "T"]

\* a context: the fields it holds, and whether converting them fails
Contexts ==
  { [fields |-> [k \in S |-> CtxValue[k]], bad |-> FALSE] :
      S \in SUBSET {"requestId", "traceId"} }
    \cup { [fields |-> CtxValue, bad |-> TRUE] }

MainContexts ==
  { [fields |-> [k \in {"requestId"} |-> CtxValue[k]], bad |-> b] : b \in BOOLEAN }

ExplicitFields ==
  { String("requestId", "B"), String("requestId", "B2"), String("userId", "U") }

FieldSeqs == UNION { [1..n -> ExplicitFields] : n \in 0..MaxFields }

MainFieldSeqs == { <<>>, <<String("requestId", "B")>> }

(***************************************************************************)
(* State and operations                                                    *)
(***************************************************************************)
Init ==
  /\ pc = "init"
  /\ options = <<>>
  /\ opts = defaultOptions
  /\ logger = NoLogger
  /\ err = NoError
  /\ out = [w \in Writers |-> <<>>]
  /\ last = <<>>
  /\ calls = 0
  /\ got = <<>>

NewLogger(optionSeq) ==
  /\ pc = "init"
  /\ LET os == ApplyOptions(optionSeq, defaultOptions)
         r  == zapLevel(os.level)
     IN  /\ options' = optionSeq
         /\ opts' = os
         /\ err' = r.err
         /\ IF r.err.nil
            THEN logger' = MakeLogger(r.level, os) /\ pc' = "ready"
            ELSE logger' = NoLogger /\ pc' = "failed"
  /\ UNCHANGED <<out, last, calls, got>>

LogCallSetsLevel(lvl, ctx, fields) ==
  /\ pc = "ready"
  /\ \E new \in extractFields(ctx, fields) :
       LET sinks == AcceptingSinks(logger, lvl)
           stack == sinks # {} /\ AddStacktrace(logger, lvl)
       IN  /\ out' = WriteTee(out, logger, lvl, new, stack)
           /\ last' = << [lvl |-> lvl, ctx |-> ctx, fields |-> fields, new |-> new,
                          sinks |-> sinks, stack |-> stack] >>
  /\ pc' = AfterWrite(lvl)
  /\ calls' = calls + 1
  /\ logger' = [logger EXCEPT !.level = lvl]
  /\ UNCHANGED <<options, opts, err, got>>

\* l.Logger.<Severity>(msg, l.extractFields(ctx, fields...)...)
LogCall(lvl, ctx, fields) ==
  /\ pc = "ready"
  /\ \E new \in extractFields(ctx, fields) :
       LET sinks == AcceptingSinks(logger, lvl)
           stack == sinks # {} /\ AddStacktrace(logger, lvl)
       IN  /\ out' = WriteTee(out, logger, lvl, new, stack)
           /\ last' = << [lvl |-> lvl, ctx |-> ctx, fields |-> fields, new |-> new,
                          sinks |-> sinks, stack |-> stack] >>
  /\ pc' = AfterWrite(lvl)
  /\ calls' = calls + 1
  /\ UNCHANGED <<options, opts, logger, err, got>>

Debug(ctx, fields) == LogCall(DebugLevel, ctx, fields)

Info(ctx, fields) == LogCall(InfoLevel, ctx, fields)

Warn(ctx, fields) == LogCall(WarnLevel, ctx, fields)

Error(ctx, fields) == LogCall(ErrorLevel, ctx, fields)

Fatal(ctx, fields) == LogCall(FatalLevel, ctx, fields)

\* the process exit that ends a Fatal call
Exit ==
  /\ pc = "exiting"
  /\ pc' = "exited"
  /\ UNCHANGED <<options, opts, logger, err, out, last, calls, got>>

GetLevelCall ==
  /\ pc = "ready"
  /\ got' = <<GetLevel(logger)>>
  /\ UNCHANGED <<pc, options, opts, logger, err, out, last, calls>>

\* construction, then logging calls with few field shapes, under every threshold
Next ==
  \/ \E os \in MainOptionSeqs : NewLogger(os)
  \/ calls < MaxCalls /\ \E c \in MainContexts, f \in MainFieldSeqs : Debug(c, f)
  \/ calls < MaxCalls /\ \E c \in MainContexts, f \in MainFieldSeqs : Info(c, f)
  \/ calls < MaxCalls /\ \E c \in MainContexts, f \in MainFieldSeqs : Warn(c, f)
  \/ calls < MaxCalls /\ \E c \in MainContexts, f \in MainFieldSeqs : Error(c, f)
  \/ calls < MaxCalls /\ \E c \in MainContexts, f \in MainFieldSeqs : Fatal(c, f)
  \/ GetLevelCall
  \/ Exit

Spec == Init /\ [][Next]_vars

\* logging calls with every shape of contextual and explicit fields
NextFields ==
  \/ \E os \in FieldOptionSeqs : NewLogger(os)
  \/ calls < MaxFieldCalls /\ \E c \in Contexts, f \in FieldSeqs : Debug(c, f)
  \/ calls < MaxFieldCalls /\ \E c \in Contexts, f \in FieldSeqs : Info(c, f)
  \/ calls < MaxFieldCalls /\ \E c \in Contexts, f \in FieldSeqs : Warn(c, f)
  \/ calls < MaxFieldCalls /\ \E c \in Contexts, f \in FieldSeqs : Error(c, f)
  \/ calls < MaxFieldCalls /\ \E c \in Contexts, f \in FieldSeqs : Fatal(c, f)
  \/ Exit

SpecFields == Init /\ [][NextFields]_vars

\* construction under every sequence of options
NextOptions == \E os \in OptionSeqs : NewLogger(os)

SpecOptions == Init /\ [][NextOptions]_vars

\* construction under every spelling of a level string
NextLevel ==
  \/ \E s \in AllLevelStrings : NewLogger(<<WithLevel(s)>>)
  \/ GetLevelCall

SpecLevel == Init /\ [][NextLevel]_vars

TypeOK ==
  /\ pc \in {"init", "ready", "failed", "exiting", "exited"}
  /\ calls \in Nat
  /\ opts.infoWriter \in Writers /\ opts.errorWriter \in Writers
  /\ Len(last) <= 1 /\ Len(got) <= 1

(***************************************************************************)
(* Properties                                                              *)
(***************************************************************************)
Built == pc \in {"ready", "exiting", "exited"}

Range(seq) == { seq[i] : i \in 1..Len(seq) }

Names(seq) == { seq[i].Key : i \in 1..Len(seq) }

AllEntries == UNION { Range(out[w]) : w \in Writers }

RECURSIVE TotalLen(_)
TotalLen(ws) ==
  IF ws = {} THEN 0
  ELSE LET w == CHOOSE x \in ws : TRUE IN Len(out[w]) + TotalLen(ws \ {w})

\* the sinks the routing policy names for severity S under threshold T
PolicySinks(T, S) ==
  IF S < T THEN {} ELSE IF S <= InfoLevel THEN {"info"} ELSE {"error"}

\* the entry of the last call is the newest entry of the writer behind sink s
NewestIs(s) ==
  LET w == WriterOf(logger, s)
  IN  /\ Len(out[w]) > 0
      /\ out[w][Len(out[w])].sink = s
      /\ out[w][Len(out[w])].level = last[1].lvl
      /\ out[w][Len(out[w])].fields = FixedFields(logger) \o last[1].new

\* C1: under any threshold T a record of severity S >= T is accepted by
\* exactly one sink (info when S <= info, error when S >= warn) and a record
\* of severity S < T by neither; what is written follows the same policy.
C1_ExactlyOneSink ==
  Built =>
    /\ \A S \in Levels :
         /\ AcceptingSinks(logger, S) = PolicySinks(GetLevel(logger), S)
         /\ S >= GetLevel(logger) => Cardinality(AcceptingSinks(logger, S)) = 1
    /\ TotalLen(Writers) <= calls
    /\ \A e \in AllEntries : PolicySinks(GetLevel(logger), e.level) = {e.sink}
    /\ last # <<>> =>
         /\ last[1].sinks = PolicySinks(GetLevel(logger), last[1].lvl)
         /\ \A s \in last[1].sinks : NewestIs(s)
         /\ (calls = 1 /\ last[1].sinks = {}) => TotalLen(Writers) = 0
         /\ (calls = 1 /\ last[1].sinks # {}) => TotalLen(Writers) = 1

C1_Witness ==
  /\ pc = "ready" /\ calls = 2 /\ last # <<>>
  /\ GetLevel(logger) = WarnLevel
  /\ last[1].lvl = ErrorLevel
  /\ opts.errorWriter = "w2"
  /\ Len(out["w2"]) = 1 /\ out["w2"][1].sink = "error"
  /\ out["w1"] = <<>> /\ out["stdout"] = <<>>

\* C7: a record carries a stack trace exactly when the error sink accepts it
\* (severity >= threshold and severity >= warn); records of the info sink
\* carry none.
C7_StackIffErrorSink ==
  Built =>
    /\ \A e \in AllEntries : e.stack <=> (e.sink = "error")
    /\ last # <<>> =>
         /\ last[1].stack <=> ("error" \in last[1].sinks)
         /\ last[1].stack <=>
              (last[1].lvl >= GetLevel(logger) /\ last[1].lvl >= WarnLevel)

C7_Witness ==
  /\ \E e \in AllEntries : e.sink = "info" /\ ~e.stack
  /\ \E e \in AllEntries : e.sink = "error" /\ e.stack /\ e.level = WarnLevel

\* C8: once the logger is built, no logging call and no GetLevel call changes
\* its threshold or its sinks, and GetLevel returns that threshold.
C8_ThresholdAndSinksFixed ==
  [][ Built =>
        /\ logger' = logger
        /\ GetLevel(logger') = GetLevel(logger)
        /\ WriterOf(logger', "info") = WriterOf(logger, "info")
        /\ WriterOf(logger', "error") = WriterOf(logger, "error")
        /\ \A S \in Levels : AcceptingSinks(logger', S) = AcceptingSinks(logger, S)
        /\ got' # <<>> => got'[1] = GetLevel(logger) ]_vars

C8_Witness ==
  /\ pc = "ready" /\ calls = 2 /\ got # <<>>
  /\ last # <<>> /\ last[1].lvl = DebugLevel
  /\ GetLevel(logger) = ErrorLevel /\ got[1] = ErrorLevel

FatalWritten ==
  /\ last # <<>>
  /\ last[1].lvl = FatalLevel
  /\ last[1].lvl >= GetLevel(logger)
  /\ last[1].sinks = {"error"}
  /\ NewestIs("error")
  /\ \A e \in AllEntries : e.level = FatalLevel => e.sink = "error"

\* C9: a Fatal call writes its record, to the error sink only, and only then
\* the process exits; the exit never comes before the record and nothing
\* happens after it.
C9_FatalEmitsThenExits ==
  [][ /\ pc # "exited"
      /\ (calls' # calls /\ last'[1].lvl = FatalLevel) =>
           (pc' = "exiting" /\ FatalWritten')
      /\ pc = "exiting" => (pc' = "exited" /\ out' = out)
      /\ pc' = "exited" => (pc = "exiting" /\ FatalWritten) ]_vars

C9_Witness ==
  /\ pc = "exited"
  /\ FatalWritten
  /\ GetLevel(logger) = FatalLevel
  /\ calls = 2

\* the names of the contextual fields derived in the last call
ContextNames == DOMAIN StructToMap(last[1].ctx).m

\* C4: a name that is both a contextual and an explicit field of the call is
\* emitted with an explicit call-site field, never with the contextual one.
C4_ExplicitWins ==
  (Built /\ last # <<>>) =>
    \A k \in ContextNames \cap Names(last[1].fields) :
      /\ \E i \in 1..Len(last[1].new) : last[1].new[i].Key = k
      /\ \A i \in 1..Len(last[1].new) :
           last[1].new[i].Key = k =>
             /\ last[1].new[i] \in Range(last[1].fields)
             /\ last[1].new[i] # Reflect(k, StructToMap(last[1].ctx).m[k])
      /\ \A s \in last[1].sinks : NewestIs(s)

C4_Witness ==
  /\ last # <<>>
  /\ ~last[1].ctx.bad
  /\ "requestId" \in ContextNames
  /\ last[1].fields = <<String("requestId", "B")>>
  /\ String("requestId", "B") \in Range(last[1].new)
  /\ last[1].sinks = {"info"} /\ NewestIs("info")

PairwiseDistinctNames(seq) ==
  \A i, j \in 1..Len(seq) : i # j => seq[i].Key # seq[j].Key

\* C5: when the explicit fields have pairwise distinct names, the merged
\* fields are the explicit fields plus the contextual fields whose name is not
\* explicit, each once, and nothing else.
C5_MergedIsUnion ==
  (Built /\ last # <<>> /\ PairwiseDistinctNames(last[1].fields)) =>
    LET m == StructToMap(last[1].ctx).m
        expected == Range(last[1].fields)
                      \cup { Reflect(k, m[k]) : k \in (DOMAIN m) \ Names(last[1].fields) }
    IN  /\ Range(last[1].new) = expected
        /\ Len(last[1].new) = Cardinality(expected)
        /\ Names(last[1].new) = (DOMAIN m) \cup Names(last[1].fields)
        /\ \A s \in last[1].sinks : NewestIs(s)

C5_Witness ==
  /\ last # <<>>
  /\ ~last[1].ctx.bad
  /\ ContextNames = {"requestId", "traceId"}
  /\ last[1].fields = <<String("userId", "U"), String("requestId", "B")>>
  /\ Len(last[1].new) = 3
  /\ Reflect("traceId", "T") \in Range(last[1].new)
  /\ last[1].sinks = {"error"}

\* the explicit fields that are the last of their name
LastOfName(seq) ==
  { seq[i] : i \in { j \in 1..Len(seq) :
                       \A h \in (j + 1)..Len(seq) : seq[h].Key # seq[j].Key } }

\* C10 as stated: when deriving the contextual fields fails the call still goes
\* through with exactly the explicit call-site fields.
C10_Original ==
  (Built /\ last # <<>> /\ StructToMap(last[1].ctx).err) =>
    /\ Range(last[1].new) = Range(last[1].fields)
    /\ \A s \in last[1].sinks : NewestIs(s)

\* C10: when deriving the contextual fields fails the call still goes through
\* at the requested severity, with the explicit call-site fields and no
\* contextual one, an explicit name given several times keeping its last field.
C10_FailureIgnored ==
  (Built /\ last # <<>> /\ StructToMap(last[1].ctx).err) =>
    /\ Range(last[1].new) = LastOfName(last[1].fields)
    /\ Len(last[1].new) = Cardinality(Names(last[1].fields))
    /\ last[1].sinks = PolicySinks(GetLevel(logger), last[1].lvl)
    /\ \A s \in last[1].sinks : NewestIs(s)
    /\ pc = (IF last[1].lvl = FatalLevel THEN "exiting" ELSE "ready") \/ pc = "exited"

C10_Witness ==
  /\ last # <<>>
  /\ last[1].ctx.bad /\ DOMAIN last[1].ctx.fields = {"requestId", "traceId"}
  /\ last[1].fields = <<String("userId", "U")>>
  /\ last[1].new = <<String("userId", "U")>>
  /\ last[1].lvl = WarnLevel /\ NewestIs("error")

OptionFields ==
  {"level", "callSkip", "module", "serviceName", "infoWriter", "errorWriter"}

StatedDefault(f) ==
  CASE f = "level" -> <<"i","n","f","o">>
    [] f = "callSkip" -> 1
    [] f = "module" -> "default"
    [] f = "serviceName" -> "default"
    [] f = "infoWriter" -> "stdout"
    [] f = "errorWriter" -> "stdout"

\* the argument of the last option of the sequence that sets field f
LastSet(seq, f) ==
  LET I == { i \in 1..Len(seq) : seq[i].set = f }
  IN  IF I = {} THEN StatedDefault(f)
      ELSE seq[CHOOSE i \in I : \A j \in I : j <= i].arg

\* C6: after NewLogger every option field holds the argument of the last
\* option that set it, or its default when none did.
C6_LastOptionWins ==
  pc # "init" =>
    /\ \A f \in OptionFields : opts[f] = LastSet(options, f)
    /\ pc = "ready" => logger.opts = opts

C6_Witness ==
  /\ pc = "ready"
  /\ options = <<WithModule("a"), WithModule("b")>>
  /\ logger.opts.module = "b"
  /\ logger.opts.callSkip = 1 /\ logger.opts.errorWriter = "stdout"

Recognized(s) == ToLower(s) \in TokenSet \cup {<<>>}

\* C2 as stated: every recognized token in any letter case, and the empty
\* string, builds a logger whose GetLevel is the matching severity.
C2_Original ==
  (pc # "init" /\ Recognized(opts.level)) =>
    /\ pc = "ready" /\ err = NoError
    /\ GetLevel(logger) = SeverityOf(ToLower(opts.level))

\* C2: every recognized token written all in lower case or all in upper case,
\* and the empty string, builds a logger whose GetLevel is the matching
\* severity.
C2_LowerOrUpperParses ==
  (pc # "init" /\ Recognized(opts.level)
     /\ opts.level \in {ToLower(opts.level), ToUpper(opts.level)}) =>
    /\ pc = "ready" /\ err = NoError
    /\ GetLevel(logger) = SeverityOf(ToLower(opts.level))
    /\ got # <<>> => got[1] = SeverityOf(ToLower(opts.level))

C2_Witness ==
  /\ pc = "ready"
  /\ opts.level = <<"D","P","A","N","I","C">>
  /\ got = <<DPanicLevel>>

\* C3: a level string that is no recognized token makes NewLogger return an
\* error that carries the string, and no logger.
C3_InvalidLevelFails ==
  /\ (pc # "init" /\ ~Recognized(opts.level)) => (pc = "failed" /\ err # NoError)
  /\ err # NoError =>
       /\ logger = NoLogger
       /\ Len(err.text) >= Len(opts.level)
       /\ SubSeq(err.text, Len(err.text) - Len(opts.level) + 1, Len(err.text)) = opts.level

C3_Witness ==
  /\ pc = "failed"
  /\ opts.level = <<"v","e","r","b","o","s","e">>
  /\ logger = NoLogger
  /\ err = ErrorsNew(ErrorPrefix \o <<"v","e","r","b","o","s","e">>)

====
